---- MODULE Spec2Model ----
(***************************************************************************)
(* Model of the web-page-to-Markdown tool (the Python file under src/):    *)
(* the FetchThread worker, the handlers of the MarkdownMerger window and   *)
(* the file name derivation.                                               *)
(*                                                                         *)
(* A Python str is a sequence of one-character strings, so that strip,     *)
(* startswith, split, re.sub and rsplit are computed character by          *)
(* character.  The two CJK characters of the error prefix are written      *)
(* "cuo" and "wu" (one sequence element each).                             *)
(*                                                                         *)
(* Specifications:                                                         *)
(*   Spec      the URL list and the fetch (thread, signals, slots)         *)
(*   FairSpec  the same under fair scheduling, for liveness                *)
(*   ListSpec  add_url, remove_url, clear_urls on their own                *)
(*   MergeSpec the URL list, the fetch and the Merged save                 *)
(*   SplitSpec the Split save after a completed fetch                      *)
(*   NameSpec  get_filename_from_url on its own                            *)
(*                                                                         *)
(* Not modelled: the status bar and the warning boxes (display only), and  *)
(* what the Qt widgets and the file system do to a text beyond keeping it. *)
(***************************************************************************)
EXTENDS Integers, Sequences, FiniteSets, TLC

VARIABLES
    url_list,          \* MarkdownMerger.url_list
    url_list_widget,   \* the items of MarkdownMerger.url_list_widget
    markdown_results,  \* MarkdownMerger.markdown_results
    preview_text,      \* the plain text held by MarkdownMerger.preview_text
    fetch_btn,         \* fetch_btn.isEnabled()
    save_btn,          \* save_btn.isEnabled()
    merge_radio,       \* merge_radio.isChecked()
    progress_bar,      \* [visible, value, maximum] of the progress bar
    thread_urls,       \* FetchThread.urls of the current fetch_thread
    worker_pc,         \* position of FetchThread.run
    results,           \* the local list `results` of FetchThread.run
    emitted,           \* signals emitted by the current fetch_thread, in order
    handled,           \* how many of them the GUI thread has delivered
    in_flight,         \* history: threads started whose finished signal is undelivered
    launch_list,       \* history: url_list when start_fetch launched the thread
    responses,         \* history: what each request of the thread came back with
    folder,            \* the files of the directory a Split save writes into
    merged_file,       \* the content of the path a Merged save writes
    writes,            \* history: the open() calls of the last Split save
    save_report,       \* the message box save_markdown showed last
    fn_url,            \* argument of a get_filename_from_url call
    fn_name            \* what that call returned

vars == <<url_list, url_list_widget, markdown_results, preview_text, fetch_btn,
          save_btn, merge_radio, progress_bar, thread_urls, worker_pc, results,
          emitted, handled, in_flight, launch_list, responses, folder,
          merged_file, writes, save_report, fn_url, fn_name>>

\* no message box yet; no name derived yet
NoReport == [box |-> "none"]
NoName == <<"unset">>

-----------------------------------------------------------------------------
(* Bounds of the model.                                                    *)

\* longest url_list the user builds
MaxUrls == 2
\* longest url_list built by the UrlList operations on their own
MaxListUrls == 4
\* longest url_list the user builds where the liveness of the fetch is checked
MaxFairUrls == 2
\* longest url_list the user builds where the Merged save is checked
MaxSaveUrls == 2
\* longest batch a Split save is tried on
MaxBatch == 2
\* most files the directory of the Split saves may come to hold
MaxFiles == 4
\* longest URL remainder (after the scheme) a derivation is tried on
MaxBody == 4

-----------------------------------------------------------------------------
(* Python str operations.                                                  *)

Whitespace == {" ", "\t", "\n"}

RECURSIVE lstrip(_)
lstrip(s) ==
    IF s # <<>> /\ Head(s) \in Whitespace THEN lstrip(Tail(s)) ELSE s

RECURSIVE rstrip(_)
rstrip(s) ==
    IF s # <<>> /\ s[Len(s)] \in Whitespace
    THEN rstrip(SubSeq(s, 1, Len(s) - 1)) ELSE s

strip(s) == rstrip(lstrip(s))

startswith(s, p) == Len(s) >= Len(p) /\ SubSeq(s, 1, Len(p)) = p

\* index of the first occurrence of sep in s, 0 when there is none
find(s, sep) ==
    LET hits == {i \in 1..(Len(s) - Len(sep) + 1) :
                    SubSeq(s, i, i + Len(sep) - 1) = sep}
    IN IF hits = {} THEN 0 ELSE CHOOSE i \in hits : \A j \in hits : i <= j

\* index of the last occurrence of sep in s, 0 when there is none
rfind(s, sep) ==
    LET hits == {i \in 1..(Len(s) - Len(sep) + 1) :
                    SubSeq(s, i, i + Len(sep) - 1) = sep}
    IN IF hits = {} THEN 0 ELSE CHOOSE i \in hits : \A j \in hits : i >= j

\* s.split(sep): the pieces between the occurrences of sep, left to right
RECURSIVE split(_, _)
split(s, sep) ==
    LET i == find(s, sep)
    IN IF i = 0 THEN <<s>>
       ELSE <<SubSeq(s, 1, i - 1)>> \o split(SubSeq(s, i + Len(sep), Len(s)), sep)

\* s.rsplit(sep, 1)[0]
rsplit1_first(s, sep) ==
    LET i == rfind(s, sep)
    IN IF i = 0 THEN s ELSE SubSeq(s, 1, i - 1)

Digits == <<"0", "1", "2", "3", "4", "5", "6", "7", "8", "9">>

\* str(n) of an int n >= 0
RECURSIVE str(_)
str(n) ==
    IF n < 10 THEN <<Digits[n + 1]>>
    ELSE str(n \div 10) \o <<Digits[(n % 10) + 1]>>

\* ''.join(list)
RECURSIVE join(_)
join(l) == IF l = <<>> THEN <<>> ELSE Head(l) \o join(Tail(l))

-----------------------------------------------------------------------------
(* MarkdownMerger.get_filename_from_url                                    *)

SchemeSep == <<":", "/", "/">>
Page == <<"p", "a", "g", "e">>

\* the character class of re.sub(r'[<>:"/\\|?*]', '_', filename)
IllegalChars == {"<", ">", ":", "\"", "/", "\\", "|", "?", "*"}

re_sub_illegal(s) ==
    [i \in 1..Len(s) |-> IF s[i] \in IllegalChars THEN "_" ELSE s[i]]

\* url.split('://')[-1]
SchemeSplit(url) ==
    LET pieces == split(url, SchemeSep) IN pieces[Len(pieces)]

\* line 244: the URL without its protocol, its parameters and its fragment
url_path(url) == split(split(SchemeSplit(url), <<"?">>)[1], <<"#">>)[1]

\* line 247
domain_of(parts) == IF parts # <<>> THEN parts[1] ELSE Page

\* line 248
path_parts_of(parts) == SelectSeq(Tail(parts), LAMBDA p : p # <<>>)

\* lines 251-259
choose_filename(domain, path_parts) ==
    IF Len(path_parts) >= 2
    THEN path_parts[Len(path_parts) - 1] \o <<"_">> \o path_parts[Len(path_parts)]
    ELSE IF Len(path_parts) = 1
    THEN split(domain, <<".">>)[1] \o <<"_">> \o path_parts[1]
    ELSE split(domain, <<".">>)[1]

\* line 264
remove_extension(filename) ==
    IF find(filename, <<".">>) # 0
    THEN rsplit1_first(filename, <<".">>) ELSE filename

\* line 265
or_page(filename) == IF filename # <<>> THEN filename ELSE Page

\* lines 247-265, parts the list of line 246
filename_of_parts(parts) ==
    or_page(remove_extension(re_sub_illegal(
        choose_filename(domain_of(parts), path_parts_of(parts)))))

get_filename_from_url(url) == filename_of_parts(split(url_path(url), <<"/">>))

-----------------------------------------------------------------------------
(* What the user can type and what a request can come back with.           *)

HttpPrefix  == <<"h", "t", "t", "p", ":", "/", "/">>
HttpsPrefix == <<"h", "t", "t", "p", "s", ":", "/", "/">>

\* "http://a/b" and "https://a/b_1"
UrlA == HttpPrefix \o <<"a", "/", "b">>
UrlB == HttpsPrefix \o <<"a", "/", "b", "_", "1">>

\* "http://c"
UrlC == HttpPrefix \o <<"c">>

\* texts of the url_input line: two URLs (one padded with white space) and a
\* text add_url must refuse
InputTexts ==
    { <<" ">> \o UrlA \o <<"\n">>,
      UrlB,
      <<"f", "t", "p">> \o SchemeSep \o <<"a">> }

\* texts for the UrlList operations on their own: three URLs, and texts
\* add_url must refuse: empty, blank, another scheme, an upper-case scheme,
\* a scheme that is not at the start, a scheme cut short
ListInputTexts ==
    { <<" ">> \o UrlA \o <<"\n">>,
      UrlB,
      <<"\t">> \o UrlC,
      <<>>,
      <<" ", "\t">>,
      <<"f", "t", "p">> \o SchemeSep \o <<"a">>,
      <<"H", "T", "T", "P">> \o SchemeSep \o <<"a">>,
      <<"a", " ">> \o UrlA,
      <<"h", "t", "t", "p", ":", "/", "a">> }

\* texts typed where the liveness of the fetch is checked
FairInputTexts == { UrlA, <<"a">> }

\* texts typed where the Merged save is checked
SaveInputTexts == { UrlA, <<"a", "/", "b">> }

\* Markdown texts html2text can return, and str(e) of the exceptions that
\* requests.get, raise_for_status, apparent_encoding and handle can raise
Markdowns  == { <<"M">> }
ErrorTexts == { <<"E">> }

\* the outcome of lines 35-40 for one URL: the Markdown, or the exception
\* the except clause catches (it sees only str(e), whatever raised it)
Responses ==
    [raised : {FALSE}, text : Markdowns] \cup [raised : {TRUE}, text : ErrorTexts]

\* the literal of line 50: the two characters of the word "error", ':', ' '
ErrorPrefix == <<"cuo", "wu", ":", " ">>

-----------------------------------------------------------------------------
(* FetchThread                                                             *)

\* variant: start_fetch passes url_list itself, the thread reads the live list
ThreadUrlsAliased == url_list

\* FetchThread.urls as the running thread reads it: the copy start_fetch made
ThreadUrls == thread_urls

\* variant: the except branch also records success True
FetchResultAllSuccess(url, resp) ==
    [url     |-> url,
     content |-> IF resp.raised THEN ErrorPrefix \o resp.text ELSE resp.text,
     success |-> TRUE]

\* the dict appended to results, lines 42-46 and 48-52
FetchResult(url, resp) ==
    IF resp.raised
    THEN [url |-> url, content |-> ErrorPrefix \o resp.text, success |-> FALSE]
    ELSE [url |-> url, content |-> resp.text, success |-> TRUE]

\* variant: the index is emitted as it is
ProgressSignalOffByOne(i, urls) ==
    [sig |-> "progress", current |-> i, total |-> Len(urls)]

\* self.progress.emit(i + 1, len(self.urls)), i the index of the iteration
ProgressSignal(i, urls) ==
    [sig |-> "progress", current |-> i + 1, total |-> Len(urls)]

FinishedSignal(rs) == [sig |-> "finished", results |-> rs]

\* variant: nothing catches the exception, which ends run()
AfterResponseUncaught(resp) == IF resp.raised THEN "dead" ELSE "loop"

\* where run() stands after an iteration: the except clause of line 47
\* catches every Exception the request or the conversion raises, the loop
\* goes on
AfterResponse(resp) == "loop"

\* one iteration of the loop of run(), lines 33-54
WorkerFetch(resp) ==
    LET i == Len(results) IN
    /\ worker_pc = "loop"
    /\ i < Len(ThreadUrls)
    /\ results' = Append(results, FetchResult(ThreadUrls[i + 1], resp))
    /\ responses' = Append(responses, resp)
    /\ emitted' = Append(emitted, ProgressSignal(i, ThreadUrls))
    /\ worker_pc' = AfterResponse(resp)
    /\ UNCHANGED <<url_list, url_list_widget, markdown_results, preview_text,
                   fetch_btn, save_btn, merge_radio, progress_bar, thread_urls,
                   handled, in_flight, launch_list, folder, merged_file, writes,
                   save_report, fn_url, fn_name>>

\* the end of run(), line 56
WorkerFinish ==
    /\ worker_pc = "loop"
    /\ Len(results) >= Len(ThreadUrls)
    /\ emitted' = Append(emitted, FinishedSignal(results))
    /\ worker_pc' = "done"
    /\ UNCHANGED <<url_list, url_list_widget, markdown_results, preview_text,
                   fetch_btn, save_btn, merge_radio, progress_bar, thread_urls,
                   results, handled, in_flight, launch_list, responses, folder,
                   merged_file, writes, save_report, fn_url, fn_name>>

-----------------------------------------------------------------------------
(* MarkdownMerger: the URL list                                            *)

\* variant: the scheme is looked for anywhere in the text
IsAcceptedUrlAnywhere(url) ==
    /\ url # <<>>
    /\ find(url, HttpPrefix) # 0 \/ find(url, HttpsPrefix) # 0

\* the test of lines 180-181 on the stripped text
IsAcceptedUrl(url) ==
    /\ url # <<>>
    /\ startswith(url, HttpPrefix) \/ startswith(url, HttpsPrefix)

\* add_url, with `text` in the input line
AddUrl(text) ==
    LET url == strip(text) IN
    /\ IF IsAcceptedUrl(url)
       THEN /\ url_list' = Append(url_list, url)
            /\ url_list_widget' = Append(url_list_widget, url)
       ELSE UNCHANGED <<url_list, url_list_widget>>
    /\ UNCHANGED <<markdown_results, preview_text, fetch_btn, save_btn,
                   merge_radio, progress_bar, thread_urls, worker_pc, results,
                   emitted, handled, in_flight, launch_list, responses, folder,
                   merged_file, writes, save_report, fn_url, fn_name>>

\* list.pop(k) and QListWidget.takeItem(k), k counted from 0
pop(l, k) == SubSeq(l, 1, k) \o SubSeq(l, k + 2, Len(l))

\* remove_url, with current_row the selected row of the list widget (-1: none)
RemoveUrl(current_row) ==
    /\ current_row \in -1..(Len(url_list_widget) - 1)
    /\ IF current_row >= 0
       THEN /\ url_list' = pop(url_list, current_row)
            /\ url_list_widget' = pop(url_list_widget, current_row)
       ELSE UNCHANGED <<url_list, url_list_widget>>
    /\ UNCHANGED <<markdown_results, preview_text, fetch_btn, save_btn,
                   merge_radio, progress_bar, thread_urls, worker_pc, results,
                   emitted, handled, in_flight, launch_list, responses, folder,
                   merged_file, writes, save_report, fn_url, fn_name>>

\* clear_urls
ClearUrls ==
    /\ url_list' = <<>>
    /\ url_list_widget' = <<>>
    /\ UNCHANGED <<markdown_results, preview_text, fetch_btn, save_btn,
                   merge_radio, progress_bar, thread_urls, worker_pc, results,
                   emitted, handled, in_flight, launch_list, responses, folder,
                   merged_file, writes, save_report, fn_url, fn_name>>

-----------------------------------------------------------------------------
(* MarkdownMerger: the fetch                                               *)

\* variant: start_fetch leaves the button enabled
FetchBtnWhileFetchingLeftOn == TRUE

\* fetch_btn.setEnabled(False) of line 204
FetchBtnWhileFetching == FALSE

\* start_fetch; the fetch button emits clicked only while it is enabled
StartFetch ==
    /\ fetch_btn
    /\ IF url_list = <<>>
       THEN UNCHANGED <<fetch_btn, save_btn, progress_bar, thread_urls,
                        worker_pc, results, emitted, handled, in_flight,
                        launch_list, responses>>
       ELSE /\ fetch_btn' = FetchBtnWhileFetching
            /\ save_btn' = FALSE
            /\ progress_bar' = [visible |-> TRUE, value |-> 0,
                                maximum |-> Len(url_list)]
            /\ thread_urls' = url_list
            /\ worker_pc' = "loop"
            /\ results' = <<>>
            /\ emitted' = <<>>
            /\ handled' = 0
            /\ in_flight' = in_flight + 1
            /\ launch_list' = url_list
            /\ responses' = <<>>
    /\ UNCHANGED <<url_list, url_list_widget, markdown_results, preview_text,
                   merge_radio, folder, merged_file, writes, save_report,
                   fn_url, fn_name>>

\* the next signal of the thread the GUI thread's event loop delivers
Pending == handled < Len(emitted)
NextSignal == emitted[handled + 1]

\* update_progress, the slot of FetchThread.progress
UpdateProgress ==
    /\ Pending
    /\ NextSignal.sig = "progress"
    /\ progress_bar' = [progress_bar EXCEPT !.value = NextSignal.current]
    /\ handled' = handled + 1
    /\ UNCHANGED <<url_list, url_list_widget, markdown_results, preview_text,
                   fetch_btn, save_btn, merge_radio, thread_urls, worker_pc,
                   results, emitted, in_flight, launch_list, responses, folder,
                   merged_file, writes, save_report, fn_url, fn_name>>

Rule == <<"\n", "\n", "-", "-", "-", "\n", "\n">>

\* the list merged_content of lines 225-231
RECURSIVE merged_content(_)
merged_content(rs) ==
    IF rs = <<>> THEN <<>>
    ELSE << <<"#", " ">> \o Head(rs).url \o <<"\n", "\n">>,
            Head(rs).content,
            Rule >> \o merged_content(Tail(rs))

\* variant: the new batch is appended to the text already in the preview
PreviewKeepingOld(rs) == preview_text \o join(merged_content(rs))

\* the text line 233 gives the preview
Preview(rs) == join(merged_content(rs))

\* fetch_completed, the slot of FetchThread.finished
FetchCompleted ==
    /\ Pending
    /\ NextSignal.sig = "finished"
    /\ markdown_results' = NextSignal.results
    /\ preview_text' = Preview(NextSignal.results)
    /\ fetch_btn' = TRUE
    /\ save_btn' = TRUE
    /\ progress_bar' = [progress_bar EXCEPT !.visible = FALSE]
    /\ handled' = handled + 1
    /\ in_flight' = in_flight - 1
    /\ UNCHANGED <<url_list, url_list_widget, merge_radio, thread_urls,
                   worker_pc, results, emitted, launch_list, responses, folder,
                   merged_file, writes, save_report, fn_url, fn_name>>

-----------------------------------------------------------------------------
(* MarkdownMerger: the saves                                               *)

\* a click on one of the two radio buttons of the exclusive save_mode_group
SelectMode(merge) ==
    /\ merge_radio' = merge
    /\ UNCHANGED <<url_list, url_list_widget, markdown_results, preview_text,
                   fetch_btn, save_btn, progress_bar, thread_urls, worker_pc,
                   results, emitted, handled, in_flight, launch_list, responses,
                   folder, merged_file, writes, save_report, fn_url, fn_name>>

\* what open(file_path, 'w') and the writes of a with block can do: succeed;
\* open raises (the file is as before); a write raises after open has
\* created or truncated the file
IoOutcomes == {"ok", "open_raises", "write_raises"}

\* the path the save dialog returns; '' when the user cancels
MergedPath == <<"m", ".", "m", "d">>
FilePaths  == { <<>>, MergedPath }

\* save_markdown with merge_radio checked, lines 271-283; the save button
\* emits clicked only while it is enabled.  preview_text.toPlainText() is
\* the text setPlainText() was given (the preview is read-only).
SaveMerged(file_path, io) ==
    /\ save_btn
    /\ merge_radio
    /\ IF markdown_results = <<>> \/ file_path = <<>>
       THEN UNCHANGED <<merged_file, save_report>>
       ELSE /\ merged_file' = CASE io = "ok" -> preview_text
                                [] io = "open_raises" -> merged_file
                                [] io = "write_raises" -> <<>>
            /\ save_report' = IF io = "ok"
                              THEN [box |-> "information", path |-> file_path]
                              ELSE [box |-> "critical"]
    /\ UNCHANGED <<url_list, url_list_widget, markdown_results, preview_text,
                   fetch_btn, save_btn, merge_radio, progress_bar, thread_urls,
                   worker_pc, results, emitted, handled, in_flight, launch_list,
                   responses, folder, writes, fn_url, fn_name>>

DotMd == <<".", "m", "d">>

\* the loop of lines 295-298: the first of filename_1.md, filename_2.md, ...
\* that does not exist
RECURSIVE ProbeCounter(_, _, _)
ProbeCounter(filename, counter, dir) ==
    LET file_path == filename \o <<"_">> \o str(counter) \o DotMd
    IN IF file_path \in DOMAIN dir
       THEN ProbeCounter(filename, counter + 1, dir)
       ELSE file_path

\* variant: no exists() loop
FreePathNoProbe(filename, dir) == filename \o DotMd

\* file_path after lines 292-298
FreePath(filename, dir) ==
    IF (filename \o DotMd) \in DOMAIN dir
    THEN ProbeCounter(filename, 1, dir)
    ELSE filename \o DotMd

\* what lines 302-303 write
SplitFileText(result) ==
    <<"#", " ">> \o result.url \o <<"\n", "\n">> \o result.content

\* the directory after open(file_path, 'w') and the two writes
WriteFile(dir, file_path, text, io) ==
    CASE io = "ok"           -> (file_path :> text) @@ dir
      [] io = "open_raises"  -> dir
      [] io = "write_raises" -> (file_path :> <<>>) @@ dir

\* lines 300-306 for the k-th result: the directory, the open() calls made
\* and success_count after them
WriteStep(result, k, out, io, filename, file_path) ==
    [dir |-> WriteFile(out.dir, file_path, SplitFileText(result), io),
     log |-> Append(out.log, [index |-> k, filename |-> filename,
                              path |-> file_path, io |-> io]),
     success_count |-> IF io = "ok" THEN out.success_count + 1
                       ELSE out.success_count]

\* lines 292-306, filename the name of line 291
NameStep(result, k, out, io, filename) ==
    WriteStep(result, k, out, io, filename, FreePath(filename, out.dir))

\* the body of the loop of lines 289-306 for the k-th result, io what its
\* open and writes do
SplitStep(result, k, out, io) ==
    IF ~result.success THEN out
    ELSE NameStep(result, k, out, io, get_filename_from_url(result.url))

\* the loop of lines 289-306 from the k-th result on
RECURSIVE SplitLoop(_, _, _)
SplitLoop(rs, k, acc) ==
    IF k > Len(rs) THEN acc.out
    ELSE SplitLoop(rs, k + 1,
                   [io  |-> acc.io,
                    out |-> SplitStep(rs[k], k, acc.out, acc.io[k])])

\* variant: the message counts the successful results only
TallyTotalAttempted(rs) == Len(SelectSeq(rs, LAMBDA r : r.success))

\* the second number of the message of lines 308-311
TallyTotal(rs) == Len(rs)

\* save_markdown with split_radio checked, lines 284-311; chosen is whether
\* the user picked the directory (or cancelled the dialog)
SaveSplit(chosen, io) ==
    /\ save_btn
    /\ ~merge_radio
    /\ IF markdown_results = <<>> \/ ~chosen
       THEN UNCHANGED <<folder, writes, save_report>>
       ELSE \E out \in {SplitLoop(markdown_results, 1,
                                  [io  |-> io,
                                   out |-> [dir |-> folder, log |-> <<>>,
                                            success_count |-> 0]])} :
            /\ folder' = out.dir
            /\ writes' = out.log
            /\ save_report' = [box |-> "information",
                               saved |-> out.success_count,
                               total |-> TallyTotal(markdown_results)]
    /\ UNCHANGED <<url_list, url_list_widget, markdown_results, preview_text,
                   fetch_btn, save_btn, merge_radio, progress_bar, thread_urls,
                   worker_pc, results, emitted, handled, in_flight, launch_list,
                   responses, merged_file, fn_url, fn_name>>

-----------------------------------------------------------------------------
(* The fetch on its own.  The save handlers write only the files and the   *)
(* message box, which no handler above reads, so the fetch is checked      *)
(* without them.                                                           *)

NoFile == <<"absent">>

Init ==
    /\ url_list = <<>>
    /\ url_list_widget = <<>>
    /\ markdown_results = <<>>
    /\ preview_text = <<>>
    /\ fetch_btn = TRUE
    /\ save_btn = FALSE
    /\ merge_radio = TRUE
    /\ progress_bar = [visible |-> FALSE, value |-> 0, maximum |-> 100]
    /\ thread_urls = <<>>
    /\ worker_pc = "idle"
    /\ results = <<>>
    /\ emitted = <<>>
    /\ handled = 0
    /\ in_flight = 0
    /\ launch_list = <<>>
    /\ responses = <<>>
    /\ folder = <<>>
    /\ merged_file = NoFile
    /\ writes = <<>>
    /\ save_report = NoReport
    /\ fn_url = <<>>
    /\ fn_name = NoName

Next ==
    \/ \E text \in InputTexts : Len(url_list) < MaxUrls /\ AddUrl(text)
    \/ \E row \in -1..(MaxUrls - 1) : RemoveUrl(row)
    \/ ClearUrls
    \/ StartFetch
    \/ \E resp \in Responses : WorkerFetch(resp)
    \/ WorkerFinish
    \/ UpdateProgress
    \/ FetchCompleted

Spec == Init /\ [][Next]_vars

\* The UrlList operations on their own: only they write url_list.
ListNext ==
    \/ \E text \in ListInputTexts : Len(url_list) < MaxListUrls /\ AddUrl(text)
    \/ \E row \in -1..(MaxListUrls - 1) : RemoveUrl(row)
    \/ ClearUrls

ListSpec == Init /\ [][ListNext]_vars

\* The fetch and the Merged save.
MergeNext ==
    \/ \E text \in SaveInputTexts : Len(url_list) < MaxSaveUrls /\ AddUrl(text)
    \/ \E row \in -1..(MaxSaveUrls - 1) : RemoveUrl(row)
    \/ ClearUrls
    \/ StartFetch
    \/ \E resp \in Responses : WorkerFetch(resp)
    \/ WorkerFinish
    \/ UpdateProgress
    \/ FetchCompleted
    \/ \E file_path \in FilePaths, io \in IoOutcomes : SaveMerged(file_path, io)

MergeSpec == Init /\ [][MergeNext]_vars

\* The Split save, from the state a completed fetch leaves: the URLs were
\* added, start_fetch ran, the thread fetched each URL and every signal was
\* delivered.  The directory the user picks may hold files already.
CompletedFetch(urls, resps) ==
    LET n  == Len(urls)
        rs == [i \in 1..n |-> FetchResult(urls[i], resps[i])]
    IN
    /\ url_list = urls
    /\ url_list_widget = urls
    /\ markdown_results = rs
    /\ preview_text = Preview(rs)
    /\ fetch_btn = TRUE
    /\ save_btn = TRUE
    /\ merge_radio = TRUE
    /\ progress_bar = [visible |-> FALSE, value |-> n, maximum |-> n]
    /\ thread_urls = urls
    /\ worker_pc = "done"
    /\ results = rs
    /\ emitted = [i \in 1..(n + 1) |->
                    IF i <= n THEN ProgressSignal(i - 1, urls)
                    ELSE FinishedSignal(rs)]
    /\ handled = n + 1
    /\ in_flight = 0
    /\ launch_list = urls
    /\ responses = resps

\* a file some other program left in the directory
Foreign == <<"x">>

InitialFolders ==
    LET base == get_filename_from_url(UrlA) IN
    { <<>>,
      (base \o DotMd) :> Foreign,
      ((base \o DotMd) :> Foreign) @@ ((base \o <<"_", "2">> \o DotMd) :> Foreign) }

SplitInit ==
    /\ \E n \in 1..MaxBatch :
         \E urls \in [1..n -> {UrlA, UrlB}], resps \in [1..n -> Responses] :
            CompletedFetch(urls, resps)
    /\ folder \in InitialFolders
    /\ merged_file = NoFile
    /\ writes = <<>>
    /\ save_report = NoReport
    /\ fn_url = <<>>
    /\ fn_name = NoName

Successes(rs) == Len(SelectSeq(rs, LAMBDA r : r.success))

SplitNext ==
    \/ \E merge \in BOOLEAN : SelectMode(merge)
    \/ \E chosen \in BOOLEAN, io \in [1..Len(markdown_results) -> IoOutcomes] :
          /\ Cardinality(DOMAIN folder) + Successes(markdown_results) <= MaxFiles
          /\ SaveSplit(chosen, io)

SplitSpec == SplitInit /\ [][SplitNext]_vars

\* get_filename_from_url on its own, on every URL made of a scheme and of at
\* most MaxBody characters that separate, or are replaced by, something in it.
NameAlphabet == {"a", ".", "/", "?", "#", ":", "<"}

\* "https://e.c/d/g.h", "https://e.c/a", "https://e.c" and
\* "https://e.c/a/b?n=http://x.y/z"
ExampleUrls ==
    { HttpsPrefix \o <<"e", ".", "c", "/", "d", "/", "g", ".", "h">>,
      HttpsPrefix \o <<"e", ".", "c", "/", "a">>,
      HttpsPrefix \o <<"e", ".", "c">>,
      HttpsPrefix \o <<"e", ".", "c", "/", "a", "/", "b", "?", "n", "=">>
                  \o HttpPrefix \o <<"x", ".", "y", "/", "z">> }

NameUrls ==
    ExampleUrls \cup
    {scheme \o body :
        scheme \in {HttpPrefix, HttpsPrefix},
        body \in UNION {[1..n -> NameAlphabet] : n \in 0..MaxBody}}

NameInit ==
    /\ url_list = <<>>
    /\ url_list_widget = <<>>
    /\ markdown_results = <<>>
    /\ preview_text = <<>>
    /\ fetch_btn = TRUE
    /\ save_btn = FALSE
    /\ merge_radio = TRUE
    /\ progress_bar = [visible |-> FALSE, value |-> 0, maximum |-> 100]
    /\ thread_urls = <<>>
    /\ worker_pc = "idle"
    /\ results = <<>>
    /\ emitted = <<>>
    /\ handled = 0
    /\ in_flight = 0
    /\ launch_list = <<>>
    /\ responses = <<>>
    /\ folder = <<>>
    /\ merged_file = NoFile
    /\ writes = <<>>
    /\ save_report = NoReport
    /\ fn_url \in NameUrls
    /\ fn_name = NoName

\* a call of get_filename_from_url
DeriveName ==
    /\ fn_name = NoName
    /\ fn_name' = get_filename_from_url(fn_url)
    /\ UNCHANGED <<url_list, url_list_widget, markdown_results, preview_text,
                   fetch_btn, save_btn, merge_radio, progress_bar, thread_urls,
                   worker_pc, results, emitted, handled, in_flight, launch_list,
                   responses, folder, merged_file, writes, save_report, fn_url>>

NameNext == DeriveName

NameSpec == NameInit /\ [][NameNext]_vars

\* The fetch with the scheduling Qt and the operating system give it: a
\* started thread keeps running, and the event loop of the GUI thread
\* delivers every queued signal.
FairNext ==
    \/ \E text \in FairInputTexts : Len(url_list) < MaxFairUrls /\ AddUrl(text)
    \/ \E row \in -1..(MaxFairUrls - 1) : RemoveUrl(row)
    \/ ClearUrls
    \/ StartFetch
    \/ \E resp \in Responses : WorkerFetch(resp)
    \/ WorkerFinish
    \/ UpdateProgress
    \/ FetchCompleted

FairSpec ==
    /\ Init
    /\ [][FairNext]_vars
    /\ WF_vars(\E resp \in Responses : WorkerFetch(resp))
    /\ WF_vars(WorkerFinish)
    /\ WF_vars(UpdateProgress)
    /\ WF_vars(FetchCompleted)

-----------------------------------------------------------------------------
(* Properties of the fetch.                                                *)

\* the result lists the current thread has emitted with its finished signal
EmittedBatches ==
    {emitted[k].results : k \in {j \in 1..Len(emitted) : emitted[j].sig = "finished"}}

HasHttpPrefix(s) == startswith(s, HttpPrefix) \/ startswith(s, HttpsPrefix)

\* C1: the batch a thread emits at completion is as long as the UrlList was
\* when start_fetch launched the thread, and its i-th record carries the i-th
\* URL of that list, whatever add/remove/clear did to the live list meanwhile.
C1_BatchMatchesLaunchList ==
    \A batch \in EmittedBatches :
        /\ Len(batch) = Len(launch_list)
        /\ \A i \in 1..Len(batch) : batch[i].url = launch_list[i]

\* a batch of two different URLs has completed after the live list was emptied
C1_Witness ==
    /\ EmittedBatches # {}
    /\ Len(launch_list) = 2
    /\ launch_list[1] # launch_list[2]
    /\ url_list = <<>>

\* C2: for a batch of n URLs the thread emits progress (1, n), ..., (n, n) in
\* that order, then the finished signal with the n results, once, and nothing
\* else; the finished signal is never before the (n, n) progress signal.
C2_SignalOrder ==
    LET n == Len(launch_list) IN
    /\ Len(emitted) <= n + 1
    /\ \A k \in 1..Len(emitted) :
          IF k <= n
          THEN emitted[k] = [sig |-> "progress", current |-> k, total |-> n]
          ELSE /\ emitted[k].sig = "finished"
               /\ Len(emitted[k].results) = n
               /\ emitted[k].results = results
    /\ worker_pc = "done" => Len(emitted) = n + 1
    /\ worker_pc = "loop" => Len(emitted) = Len(results)

\* a thread has finished a batch of two URLs, one fetched and one failed
C2_Witness ==
    /\ worker_pc = "done"
    /\ Len(emitted) = 3
    /\ \E i, j \in 1..2 : responses[i].raised /\ ~responses[j].raised

\* C3: at most one batch is in flight; the fetch button is disabled exactly
\* from the launch of a batch until its finished signal has been handled; no
\* batch is ever launched from an empty UrlList, which leaves the button on.
C3_OneBatchInFlight ==
    /\ in_flight \in {0, 1}
    /\ in_flight = 1 <=> ~fetch_btn
    /\ in_flight = 1 <=>
          (worker_pc = "loop" \/ (worker_pc = "done" /\ handled < Len(emitted)))
    /\ worker_pc # "idle" => launch_list # <<>> /\ thread_urls # <<>>

\* the thread has emitted finished, the slot has not run yet: still disabled
C3_Witness ==
    /\ in_flight = 1
    /\ ~fetch_btn
    /\ worker_pc = "done"
    /\ url_list = <<>>

\* C9: a record has success = false exactly when the request or the
\* conversion of its URL raised, and its content is then the error
\* description; it has success = true exactly when nothing raised, and its
\* content is then the Markdown.
C9_SuccessIffMarkdown ==
    \A batch \in EmittedBatches \cup {results} :
        /\ Len(batch) <= Len(responses)
        /\ \A i \in 1..Len(batch) :
              /\ batch[i].success = ~responses[i].raised
              /\ responses[i].raised =>
                    batch[i].content = ErrorPrefix \o responses[i].text
              /\ ~responses[i].raised =>
                    /\ batch[i].content = responses[i].text
                    /\ batch[i].content \in Markdowns

\* an emitted batch holds a record of each kind
C9_Witness ==
    \E batch \in EmittedBatches :
        \E i, j \in 1..Len(batch) : batch[i].success /\ ~batch[j].success

\* C10: every element of the UrlList starts with http:// or https://; add_url
\* with a text that, trimmed, is empty or lacks the prefix leaves the list as
\* it is, and with any other text appends the trimmed text at the end.
C10_OnlyHttpUrls ==
    /\ [](\A i \in 1..Len(url_list) : HasHttpPrefix(url_list[i]))
    /\ [][\A text \in ListInputTexts :
            AddUrl(text) =>
                IF strip(text) # <<>> /\ HasHttpPrefix(strip(text))
                THEN url_list' = url_list \o <<strip(text)>>
                ELSE url_list' = url_list]_vars

\* the same URL was added twice, the first time from a padded text
C10_Witness ==
    /\ Len(url_list) = 2
    /\ url_list[1] = UrlA
    /\ url_list[2] = UrlA

\* C8: a failure of one URL never aborts the batch: under fair scheduling
\* every launched batch attempts every URL, emits its finished signal, and the
\* fetch button becomes enabled again, whichever requests raise.
C8_BatchCompletes ==
    /\ (worker_pc = "loop") ~> (Len(responses) = Len(launch_list))
    /\ (worker_pc = "loop") ~>
          (worker_pc = "done" /\ emitted[Len(emitted)].sig = "finished")
    /\ (~fetch_btn) ~> fetch_btn

\* the button is on again after a batch of two URLs whose requests all raised
C8_Witness ==
    /\ fetch_btn
    /\ worker_pc = "done"
    /\ Len(markdown_results) = 2
    /\ \A i \in 1..2 : ~markdown_results[i].success

-----------------------------------------------------------------------------
(* Properties of the saves.                                                *)

\* <base>.md for c = 0, <base>_<c>.md for c >= 1
Candidate(base, c) ==
    IF c = 0 THEN base \o DotMd ELSE base \o <<"_">> \o str(c) \o DotMd

\* the paths at which the opens before the j-th of a log left a file
CreatedBefore(log, j) ==
    {log[i].path : i \in {h \in 1..(j - 1) : log[h].io # "open_raises"}}

SuccessIndices(rs) == {k \in 1..Len(rs) : rs[k].success}

\* what a Split save that opened the files of log did to directory before
SplitSaveKeepsFiles(before, after, rs, log) ==
    \* one open per successful result, in batch order, none for a failed one
    /\ Len(log) = Cardinality(SuccessIndices(rs))
    /\ \A j \in 1..Len(log) : log[j].index \in SuccessIndices(rs)
    /\ \A i, j \in 1..Len(log) : i < j => log[i].index < log[j].index
    \* every file there was before is there with its content
    /\ \A f \in DOMAIN before : f \in DOMAIN after /\ after[f] = before[f]
    \* every file the save wrote has, at the end, what was written to it
    /\ \A j \in 1..Len(log) :
          /\ log[j].io = "ok" =>
                /\ log[j].path \in DOMAIN after
                /\ after[log[j].path] = SplitFileText(rs[log[j].index])
          /\ log[j].path \notin DOMAIN before
          /\ log[j].path \notin CreatedBefore(log, j)
    \* each result went to the first free one of <base>.md, <base>_1.md, ...
    /\ \A j \in 1..Len(log) :
          LET taken == DOMAIN before \cup CreatedBefore(log, j)
              base  == log[j].filename
          IN \E c \in 0..Cardinality(taken) :
                /\ log[j].path = Candidate(base, c)
                /\ \A d \in 0..(c - 1) : Candidate(base, d) \in taken
    \* two results of one base name written into an empty directory
    /\ ( /\ before = <<>>
         /\ Len(rs) = 2
         /\ Len(log) = 2
         /\ log[1].filename = log[2].filename
         /\ log[1].io = "ok" /\ log[2].io = "ok" )
       => DOMAIN after = { log[1].filename \o DotMd,
                           log[1].filename \o <<"_", "1">> \o DotMd }

\* a step of save_markdown in Split mode that got past the directory dialog:
\* only it writes the directory, the log of opens and the message box
SplitSaveStep ==
    /\ save_btn
    /\ ~merge_radio
    /\ <<folder, writes, save_report>>' # <<folder, writes, save_report>>

\* C4: a Split save overwrites no file: the files the directory held before,
\* and the files written earlier in the save, keep their content; a result
\* whose <base>.md is taken goes to the first free name of <base>_1.md,
\* <base>_2.md, ...; two results of one base name written into an empty
\* directory give <base>.md and <base>_1.md.
C4_SplitNeverOverwrites ==
    [][SplitSaveStep =>
          SplitSaveKeepsFiles(folder, folder', markdown_results, writes')]_vars

\* a save of two results of one base name into a directory that held
\* <base>.md and <base>_2.md wrote <base>_1.md and <base>_3.md, and the two
\* old files are as they were
C4_Witness ==
    LET base == get_filename_from_url(UrlA) IN
    /\ Len(writes) = 2
    /\ writes[1].io = "ok" /\ writes[2].io = "ok"
    /\ writes[1].path = base \o <<"_", "1">> \o DotMd
    /\ writes[2].path = base \o <<"_", "3">> \o DotMd
    /\ DOMAIN folder = {Candidate(base, c) : c \in 0..3}
    /\ folder[base \o DotMd] = Foreign
    /\ folder[base \o <<"_", "2">> \o DotMd] = Foreign

OkWrites(log) == Cardinality({j \in 1..Len(log) : log[j].io = "ok"})

\* C6, as claimed: the message of a Split save gives the files written and
\* the files attempted, a file being attempted only for a successful result.
C6_TallyOverAttempted ==
    save_report # NoReport =>
        /\ save_report.saved = OkWrites(writes)
        /\ save_report.total = Len(writes)

\* C6, amended: the message of a Split save gives the files written and the
\* number of results of the batch, failed fetches included, while a file is
\* attempted only for a successful result.
C6_TallyOverBatch ==
    save_report # NoReport =>
        /\ save_report.saved = OkWrites(writes)
        /\ save_report.total = Len(markdown_results)
        /\ Len(writes) = Cardinality(SuccessIndices(markdown_results))

\* a batch with a failed fetch was saved, every attempted write succeeded,
\* and the message gives fewer files written than its total
C6_Witness ==
    /\ save_report # NoReport
    /\ \E k \in 1..Len(markdown_results) : ~markdown_results[k].success
    /\ writes # <<>>
    /\ \A j \in 1..Len(writes) : writes[j].io = "ok"
    /\ save_report.saved = Len(writes)
    /\ save_report.saved < save_report.total

\* the document of a batch: for every record in order, '# <url>', a blank
\* line, the content, the horizontal rule
RECURSIVE MergedDocument(_)
MergedDocument(batch) ==
    IF batch = <<>> THEN <<>>
    ELSE <<"#", " ">> \o batch[1].url \o <<"\n", "\n">>
         \o batch[1].content
         \o <<"\n", "\n", "-", "-", "-", "\n", "\n">>
         \o MergedDocument(Tail(batch))

\* C7: a Merged save writes the document of the batch delivered last, failed
\* records included and nothing of earlier batches; no save writes anything
\* before a batch has completed.
C7_MergedSavesLastBatch ==
    /\ [](markdown_results = <<>> => merged_file = NoFile)
    /\ [][\A file_path \in FilePaths :
            (SaveMerged(file_path, "ok") /\ file_path # <<>>) =>
                /\ emitted # <<>>
                /\ handled = Len(emitted)
                /\ emitted[Len(emitted)].sig = "finished"
                /\ markdown_results = emitted[Len(emitted)].results
                /\ merged_file' = MergedDocument(emitted[Len(emitted)].results)]_vars

\* the file holds the document of a batch of a fetched and a failed URL
C7_Witness ==
    /\ Len(markdown_results) = 2
    /\ markdown_results[1].success /\ ~markdown_results[2].success
    /\ merged_file = MergedDocument(markdown_results)
    /\ save_report = [box |-> "information", path |-> MergedPath]

-----------------------------------------------------------------------------
(* The file name derivation as the documentation gives it.                 *)

\* step 1: the URL without its scheme prefix, its query string and fragment
WithoutScheme(url) ==
    IF startswith(url, HttpsPrefix) THEN SubSeq(url, Len(HttpsPrefix) + 1, Len(url))
    ELSE IF startswith(url, HttpPrefix) THEN SubSeq(url, Len(HttpPrefix) + 1, Len(url))
    ELSE url

CutAt(s, c) == IF find(s, c) = 0 THEN s ELSE SubSeq(s, 1, find(s, c) - 1)

\* steps 2-5
DocumentedBase(segments) ==
    LET host  == segments[1]
        path  == SelectSeq(Tail(segments), LAMBDA p : p # <<>>)
        label == CutAt(host, <<".">>)
    IN IF Len(path) >= 2 THEN path[Len(path) - 1] \o <<"_">> \o path[Len(path)]
       ELSE IF Len(path) = 1 THEN label \o <<"_">> \o path[1]
       ELSE label

\* steps 6-8
DocumentedClean(name) ==
    LET replaced  == [i \in 1..Len(name) |->
                        IF name[i] \in {"<", ">", ":", "\"", "/", "\\", "|", "?", "*"}
                        THEN "_" ELSE name[i]]
        truncated == IF rfind(replaced, <<".">>) = 0 THEN replaced
                     ELSE SubSeq(replaced, 1, rfind(replaced, <<".">>) - 1)
    IN IF truncated = <<>> THEN Page ELSE truncated

DocumentedName(url) ==
    DocumentedClean(DocumentedBase(
        split(CutAt(CutAt(WithoutScheme(url), <<"?">>), <<"#">>), <<"/">>)))

\* C5: get_filename_from_url returns the name of the eight documented steps
\* for every URL that starts with http:// or https://, also when its path,
\* query or fragment contains '://'.
C5_DerivationAsDocumented ==
    fn_name # NoName => fn_name = DocumentedName(fn_url)

====
